---- MODULE Spec2Model ----
(***************************************************************************)
(* Model of addrindexrs' src/config.rs: the network-dependent resolution   *)
(* of the raw merged configuration (Config::from_args) and the RPC         *)
(* authentication-cookie accessors (Config::cookie_getter, StaticCookie,   *)
(* CookieFile).                                                            *)
(*                                                                         *)
(* Conventions                                                             *)
(*   Option<T>  : a sequence of length <= 1 (None = <<>>, Some(x) = <<x>>) *)
(*   PathBuf    : the sequence of its components below the root            *)
(*   String     : a sequence of characters (one-character strings)         *)
(*   Vec<u8>    : a sequence of byte values 0..255                         *)
(*   f32        : [neg, mant, exp], the value (-1)^neg * mant * 2^exp with *)
(*                mant < 2^24 (finite values whose product with 2^20 fits  *)
(*                usize, or is negative)                                   *)
(***************************************************************************)
EXTENDS Integers, Sequences, FiniteSets, TLC

VARIABLES
    pc,          \* "start" | "running" | "exited": the process
    host,        \* what the host answers: home_dir(), num_cpus::get(), log.init()
    args,        \* what the user specified (flags, environment, config files)
    exit_code,   \* Option<i32>: the status the process exited with
    stderr,      \* the diagnostics written to standard error, in order
    config,      \* Option<Config>: the value from_args returned
    files,       \* the file system: path -> [st, bytes]
    getter,      \* Option<Arc<dyn CookieGetter>>: the getter the caller holds
    last,        \* the name of the most recent operation
    gets,        \* what the getter's last two get() calls returned, latest first
    captured,    \* (history) Config.cookie as it was when the getter was built
    inodes,      \* (concurrent reads) inode number -> bytes
    dentry,      \* (concurrent reads) inode the cookie path names, 0 if none
    thr,         \* (concurrent reads) thread -> the state of its get() call
    wr           \* (concurrent reads) the process rewriting the cookie file

vars == <<pc, host, args, exit_code, stderr, config, files, getter, last,
          gets, captured, inodes, dentry, thr, wr>>

startupVars == <<pc, host, args, exit_code, stderr, config>>
cookieVars == <<files, getter, last, gets, captured>>
concVars == <<inodes, dentry, thr, wr>>

(***************************************************************************)
(* Bounds of the model                                                     *)
(***************************************************************************)
MaxCpus == 2          \* num_cpus::get() answers 1..MaxCpus
MaxThreadsArg == 2    \* the user gives bulk_index_threads in 0..MaxThreadsArg

(***************************************************************************)
(* Option, PathBuf                                                         *)
(***************************************************************************)
None == <<>>
Some(x) == <<x>>
unwrap(o) == o[1]
unwrap_or(o, d) == IF o = <<>> THEN d ELSE o[1]

\* PathBuf::push / Path::join with a relative component
push(path, comp) == Append(path, comp)

RECURSIVE Display(_)
\* the path as text: its components, each after a separator
Display(path) ==
    IF path = <<>> THEN "" ELSE "/" \o Head(path) \o Display(Tail(path))

\* {:?} of a path: its text between double quotes (no component of the model
\* holds a character that {:?} escapes)
Debug(path) == "\"" \o Display(path) \o "\""

(***************************************************************************)
(* f32 arithmetic and the cast to usize                                    *)
(***************************************************************************)
RECURSIVE Pow2(_)
Pow2(n) == IF n <= 0 THEN 1 ELSE 2 * Pow2(n - 1)

F32(neg, mant, exp) == [neg |-> neg, mant |-> mant, exp |-> exp]

RECURSIVE f32_round(_, _, _)
\* round-to-nearest-even of mant * 2^exp to a 24-bit mantissa
f32_round(neg, mant, exp) ==
    IF mant < Pow2(24) THEN F32(neg, mant, exp)
    ELSE LET q == mant \div 2
             r == mant % 2
             up == r = 1 /\ q % 2 = 1
         IN f32_round(neg, IF up THEN q + 1 ELSE q, exp + 1)

\* a * b in f32
f32_mul(a, b) == f32_round(a.neg # b.neg, a.mant * b.mant, a.exp + b.exp)

\* const MB: f32 = (1 << 20) as f32
MB == F32(FALSE, 1, 20)

f32_ceil_abs(x) ==
    IF x.exp >= 0 THEN x.mant * Pow2(x.exp)
    ELSE (x.mant + Pow2(-x.exp) - 1) \div Pow2(-x.exp)

\* the integer part of |x|
f32_trunc_abs(x) ==
    IF x.exp >= 0 THEN x.mant * Pow2(x.exp) ELSE x.mant \div Pow2(-x.exp)

\* a sample of the usize values an out-of-range cast may yield on a toolchain
\* where it is undefined (before Rust 1.45); since 1.45 the cast saturates
UndefSample == {0, 1, 1048576}

\* x as usize: the set of values the cast may yield. A value whose integer
\* part is in range yields it; a negative integer part is out of range.
f32_as_usize(x) ==
    IF x.neg /\ f32_trunc_abs(x) >= 1 THEN UndefSample
    ELSE {f32_trunc_abs(x)}

(***************************************************************************)
(* Network-dependent constants (the match arms of from_args)               *)
(***************************************************************************)
Networks == {"Bitcoin", "Testnet", "Regtest"}

db_subdir(network) ==
    CASE network = "Bitcoin" -> "mainnet"
      [] network = "Testnet" -> "testnet"
      [] network = "Regtest" -> "regtest"

default_daemon_port_swapped(network) ==
    CASE network = "Bitcoin" -> 8332
      [] network = "Testnet" -> 18443
      [] network = "Regtest" -> 18332

default_daemon_port(network) ==
    CASE network = "Bitcoin" -> 8332
      [] network = "Testnet" -> 18332
      [] network = "Regtest" -> 18443

default_indexer_port(network) ==
    CASE network = "Bitcoin" -> 8432
      [] network = "Testnet" -> 18432
      [] network = "Regtest" -> 18543

push_daemon_subdir_always(dir, network) ==
    CASE network = "Bitcoin" -> push(dir, "mainnet")
      [] network = "Testnet" -> push(dir, "testnet3")
      [] network = "Regtest" -> push(dir, "regtest")

\* match config.network { ... config.daemon_dir.push(...) }
push_daemon_subdir(dir, network) ==
    CASE network = "Bitcoin" -> dir
      [] network = "Testnet" -> push(dir, "testnet3")
      [] network = "Regtest" -> push(dir, "regtest")

bulk_index_threads_verbatim(threads, cpus) == threads

\* if config.bulk_index_threads == 0 { ... = num_cpus::get() }
resolve_bulk_index_threads(threads, cpus) ==
    IF threads = 0 THEN cpus ELSE threads

(***************************************************************************)
(* Startup: default_daemon_dir and Config::from_args                       *)
(***************************************************************************)
\* what a step that may end the process yields
Exit(code, msg) == [ok |-> FALSE, code |-> code, msg |-> msg, val |-> <<>>]
Value(v) == [ok |-> TRUE, code |-> 0, msg |-> "", val |-> <<v>>]

default_daemon_dir_fallback(home) ==
    Value(push(unwrap_or(home, <<"tmp">>), ".bitcoin"))

default_daemon_dir(home) ==
    IF home = None THEN Exit(1, "Error: unknown home directory")
    ELSE Value(push(unwrap(home), ".bitcoin"))

\* home_dir().map(|mut dir| { dir.extend(&[".addrindexrs", "config.toml"]); dir })
home_config(home) ==
    IF home = None THEN None
    ELSE Some(unwrap(home) \o <<".addrindexrs", "config.toml">>)

\* the config files searched, in order
configs(home) ==
    <<(<<"addrindexrs.toml">>)>> \o home_config(home)
        \o <<(<<"etc", "addrindexrs", "config.toml">>)>>

\* internal::Config::including_optional_config_files: the merge of the
\* sources. An invalid source is an error; a parameter nobody gave takes its
\* default, and the default of daemon_dir is default_daemon_dir().
including_optional_config_files(cfgs, a, h) ==
    IF ~a.valid THEN Exit(1, "configuration error")
    ELSE IF a.daemon_dir # None THEN Value([a EXCEPT !.daemon_dir = unwrap(@)])
    ELSE LET d == default_daemon_dir(h.home)
         IN IF ~d.ok THEN d
            ELSE Value([a EXCEPT !.daemon_dir = unwrap(d.val)])

\* log.init().unwrap_or_else(...)
log_init(h) ==
    IF h.log_free THEN Value("log")
    ELSE Exit(1, "Error: logging initialization failed")

\* The outcomes of Config::from_args(): the process exits, or a Config is
\* returned.  searched: the config files handed to the merge.
from_args(a, h) ==
    LET searched == configs(h.home)
        merged == including_optional_config_files(searched, a, h)
    IN IF ~merged.ok
       THEN {[exited |-> TRUE, code |-> merged.code, msg |-> merged.msg,
              searched |-> searched, config |-> None]}
       ELSE
       LET raw == unwrap(merged.val)
           db_dir == push(raw.db_dir, db_subdir(raw.network))
           daemon_rpc_port ==
               unwrap_or(raw.daemon_rpc_port, default_daemon_port(raw.network))
           indexer_rpc_port ==
               unwrap_or(raw.indexer_rpc_port, default_indexer_port(raw.network))
           daemon_dir == push_daemon_subdir(raw.daemon_dir, raw.network)
           log == log_init(h)
           threads == resolve_bulk_index_threads(raw.bulk_index_threads, h.ncpus)
       IN IF ~log.ok
          THEN {[exited |-> TRUE, code |-> log.code, msg |-> log.msg,
                 searched |-> searched, config |-> None]}
          ELSE {[exited |-> FALSE, code |-> 0, msg |-> "Config",
                 searched |-> searched,
                 config |-> Some(
                   [network_type |-> raw.network,
                    db_path |-> db_dir,
                    daemon_dir |-> daemon_dir,
                    daemon_rpc_port |-> daemon_rpc_port,
                    indexer_rpc_port |-> indexer_rpc_port,
                    cookie |-> raw.cookie,
                    bulk_index_threads |-> threads,
                    blocktxids_cache_size |-> size])]
                : size \in f32_as_usize(f32_mul(raw.blocktxids_cache_size_mb, MB))}

(***************************************************************************)
(* Strings, bytes and the values the model draws its inputs from           *)
(***************************************************************************)
\* the UTF-8 encoding of the characters the model's strings are made of
Utf8(ch) ==
    CASE ch = ":" -> 58
      [] ch = "2" -> 50
      [] ch = "a" -> 97
      [] ch = "b" -> 98
      [] ch = "o" -> 111
      [] ch = "p" -> 112
      [] ch = "s" -> 115
      [] ch = "w" -> 119

\* str::as_bytes().to_vec()
as_bytes(s) == [i \in 1..Len(s) |-> Utf8(s[i])]

AliceSecret == <<"a", ":", "s">>                            \* a literal cookie
BobPw == <<98, 111, 98, 58, 112, 119>>                      \* "bob:pw"
BobPw2 == <<98, 111, 98, 58, 112, 119, 50>>                 \* "bob:pw2"
SaPass == <<115, 97, 58, 112, 97, 115, 115, 119>>           \* "sa:passw"

HomeDirs == {None, Some(<<"home", "u">>)}
DataDir == <<"data">>

Hosts ==
    [home : HomeDirs, ncpus : 1..MaxCpus, log_free : BOOLEAN]

MbInputs ==
    { F32(FALSE, 0, 0),             \* 0.0
      F32(FALSE, 1, 0),             \* 1.0
      F32(FALSE, 5, -1),            \* 2.5
      F32(FALSE, 3, -22),           \* 0.000000715...
      F32(FALSE, 4194305, -22),     \* 1.0000002384185791
      F32(FALSE, 11744051, -24),    \* 0.699999988079071 (0.7 as f32)
      F32(TRUE, 3, -22),            \* -0.000000715...
      F32(TRUE, 1, 0),              \* -1.0
      F32(TRUE, 5, -1) }            \* -2.5

ArgSpace ==
    [network : Networks,
     db_dir : {<<"db">>},
     daemon_dir : {None, Some(DataDir)},
     daemon_rpc_port : {None, Some(8080)},
     indexer_rpc_port : {None, Some(18332)},
     cookie : {None, Some(AliceSecret)},
     bulk_index_threads : 0..MaxThreadsArg,
     blocktxids_cache_size_mb : MbInputs,
     valid : BOOLEAN]

\* the arguments the cookie specifications start from
CookieArgs ==
    { a \in ArgSpace :
        /\ a.network \in {"Bitcoin", "Testnet"}
        /\ a.daemon_dir = Some(DataDir)
        /\ a.daemon_rpc_port = None /\ a.indexer_rpc_port = None
        /\ a.bulk_index_threads = 1
        /\ a.blocktxids_cache_size_mb = F32(FALSE, 1, 0)
        /\ a.valid }

CookieHost == [home |-> Some(<<"home", "u">>), ncpus |-> 1, log_free |-> TRUE]

CookieDirs == {DataDir, push(DataDir, "testnet3")}
CookiePaths == {push(d, ".cookie") : d \in CookieDirs}
FileContents == {BobPw, BobPw2}
IoErrors == {"NotFound", "PermissionDenied", "Other"}

File(bytes) == [st |-> "file", bytes |-> bytes]
NoFile(err) == [st |-> err, bytes |-> <<>>]

NThreads == 2         \* threads calling get() at once
MaxInodes == 2        \* inodes the cookie path may name over time
Threads == 1..NThreads

IdleThread ==
    [pc |-> "idle", fd |-> 0, off |-> 0, buf |-> <<>>, snap |-> <<>>,
     torn |-> FALSE, ok |-> FALSE]

(***************************************************************************)
(* Startup                                                                 *)
(***************************************************************************)
NoCookieState ==
    /\ files = [p \in CookiePaths |-> NoFile("NotFound")]
    /\ getter = None
    /\ last = "none"
    /\ gets = <<>>
    /\ captured = None

NoConcState ==
    /\ inodes = [i \in 1..MaxInodes |-> <<>>]
    /\ dentry = 0
    /\ thr = [t \in Threads |-> IdleThread]
    /\ wr = [pc |-> "idle", fd |-> 0, pending |-> <<>>]

Init ==
    /\ pc = "start"
    /\ host \in Hosts
    /\ args \in ArgSpace
    /\ exit_code = None
    /\ stderr = <<>>
    /\ config = None
    /\ NoCookieState
    /\ NoConcState

\* main calling Config::from_args()
FromArgs ==
    /\ pc = "start"
    /\ \E o \in from_args(args, host) :
        /\ pc' = IF o.exited THEN "exited" ELSE "running"
        /\ exit_code' = IF o.exited THEN Some(o.code) ELSE None
        /\ stderr' = Append(stderr, o.msg)
        /\ config' = o.config
    /\ UNCHANGED <<host, args>>
    /\ UNCHANGED cookieVars
    /\ UNCHANGED concVars

Next == FromArgs

Spec == Init /\ [][Next]_vars

(***************************************************************************)
(* The cookie getters (sequential callers)                                 *)
(***************************************************************************)
\* Result<Vec<u8>>.  reads: the fs::read calls the get() made.
Ok(bytes, reads) ==
    [ok |-> TRUE, bytes |-> bytes, kind |-> "", msg |-> "", cause |-> "",
     reads |-> reads]
Err(kind, msg, cause, reads) ==
    [ok |-> FALSE, bytes |-> <<>>, kind |-> kind, msg |-> msg, cause |-> cause,
     reads |-> reads]

StaticCookie(value) ==
    [variant |-> "StaticCookie", value |-> value, daemon_dir |-> <<>>]
CookieFile(daemon_dir) ==
    [variant |-> "CookieFile", value |-> <<>>, daemon_dir |-> daemon_dir]

cookie_getter_from_args(cfg) ==
    IF args.cookie # None THEN StaticCookie(as_bytes(unwrap(args.cookie)))
    ELSE CookieFile(cfg.daemon_dir)

\* Config::cookie_getter(&self)
cookie_getter(cfg) ==
    IF cfg.cookie # None THEN StaticCookie(as_bytes(unwrap(cfg.cookie)))
    ELSE CookieFile(cfg.daemon_dir)

StaticCookie_get_live(self) ==
    IF config # None /\ unwrap(config).cookie # None
    THEN Ok(as_bytes(unwrap(unwrap(config).cookie)), 0)
    ELSE Ok(<<>>, 0)

\* <StaticCookie as CookieGetter>::get(&self)
StaticCookie_get(self) == Ok(self.value, 0)

\* fs::read(path) of a file nobody is writing: the bytes, or the I/O error
fs_read(path) ==
    IF files[path].st = "file" THEN Ok(files[path].bytes, 1)
    ELSE Err("io", "", files[path].st, 1)

CookieFile_get_cached(self) ==
    IF gets # <<>> /\ gets[1].ok THEN gets[1]
    ELSE LET path == push(self.daemon_dir, ".cookie")
             contents == fs_read(path)
         IN IF contents.ok THEN contents
            ELSE Err("Connection", "failed to read cookie from " \o Debug(path),
                     contents.cause, contents.reads)

CookieFile_get_names_dir(self) ==
    LET path == push(self.daemon_dir, ".cookie")
        contents == fs_read(path)
    IN IF contents.ok THEN contents
       ELSE Err("Connection",
                "failed to read cookie from " \o Debug(self.daemon_dir),
                contents.cause, contents.reads)

\* <CookieFile as CookieGetter>::get(&self)
CookieFile_get(self) ==
    LET path == push(self.daemon_dir, ".cookie")
        contents == fs_read(path)
    IN IF contents.ok THEN contents
       ELSE Err("Connection", "failed to read cookie from " \o Debug(path),
                contents.cause, contents.reads)

\* dyn CookieGetter dispatch
get(self) ==
    IF self.variant = "StaticCookie" THEN StaticCookie_get(self)
    ELSE CookieFile_get(self)

\* the state after a from_args() that returned, before any getter is built
InitCookie ==
    /\ pc = "running"
    /\ host = CookieHost
    /\ args \in CookieArgs
    /\ exit_code = None
    /\ stderr = <<"Config">>
    /\ config \in {o.config : o \in from_args(args, host)}
    /\ NoCookieState
    /\ NoConcState

\* a caller asks the Config for a getter
CookieGetter ==
    /\ pc = "running"
    /\ getter' = Some(cookie_getter(unwrap(config)))
    /\ captured' = unwrap(config).cookie
    /\ gets' = <<>>
    /\ last' = "cookie_getter"
    /\ UNCHANGED <<files>>
    /\ UNCHANGED startupVars
    /\ UNCHANGED concVars

\* the caller invokes get() on the getter it holds
Get ==
    /\ pc = "running"
    /\ getter # None
    /\ gets' = <<get(unwrap(getter))>> \o (IF gets = <<>> THEN <<>> ELSE <<gets[1]>>)
    /\ last' = "get"
    /\ UNCHANGED <<files, getter, captured>>
    /\ UNCHANGED startupVars
    /\ UNCHANGED concVars

\* the owner of the Config assigns its public cookie field
SetCookie ==
    /\ pc = "running"
    /\ \E v \in {None, Some(AliceSecret), Some(<<"b", ":", "p", "w">>)} :
        /\ v # unwrap(config).cookie
        /\ config' = Some([unwrap(config) EXCEPT !.cookie = v])
    /\ last' = "set_cookie"
    /\ UNCHANGED <<files, getter, gets, captured>>
    /\ UNCHANGED <<pc, host, args, exit_code, stderr>>
    /\ UNCHANGED concVars

\* the owner of the Config assigns its public daemon_dir field
SetDaemonDir ==
    /\ pc = "running"
    /\ \E d \in CookieDirs :
        /\ d # unwrap(config).daemon_dir
        /\ config' = Some([unwrap(config) EXCEPT !.daemon_dir = d])
    /\ last' = "set_daemon_dir"
    /\ UNCHANGED <<files, getter, gets, captured>>
    /\ UNCHANGED <<pc, host, args, exit_code, stderr>>
    /\ UNCHANGED concVars

\* the daemon (re)writes a cookie file
WriteCookieFile ==
    /\ \E p \in CookiePaths, c \in FileContents :
        /\ files[p] # File(c)
        /\ files' = [files EXCEPT ![p] = File(c)]
    /\ last' = "write"
    /\ UNCHANGED <<getter, gets, captured>>
    /\ UNCHANGED startupVars
    /\ UNCHANGED concVars

\* a cookie file is removed, made unreadable, or its device fails
BreakCookieFile ==
    /\ \E p \in CookiePaths, e \in IoErrors :
        /\ files[p] # NoFile(e)
        /\ files' = [files EXCEPT ![p] = NoFile(e)]
    /\ last' = "break"
    /\ UNCHANGED <<getter, gets, captured>>
    /\ UNCHANGED startupVars
    /\ UNCHANGED concVars

NextCookie ==
    \/ CookieGetter
    \/ Get
    \/ SetCookie
    \/ SetDaemonDir
    \/ WriteCookieFile
    \/ BreakCookieFile

SpecCookie == InitCookie /\ [][NextCookie]_vars

(***************************************************************************)
(* CookieFile::get called from several threads while the file is rewritten *)
(*                                                                         *)
(* fs::read is File::open followed by read_to_end: an open, then read      *)
(* system calls until one returns no bytes.  The cookie file of the        *)
(* getter's path is kept here as the inode the path names (dentry) and the *)
(* bytes of each inode (inodes), so that an open file outlives a rename.   *)
(***************************************************************************)
ConcContents == {BobPw, BobPw2, SaPass}

\* an inode no path names and no call has open is freed
Reclaim(ino_bytes, named, threads) ==
    [i \in DOMAIN ino_bytes |->
        IF i = named \/ \E t \in Threads : threads[t].fd = i
        THEN ino_bytes[i] ELSE <<>>]

\* one read(2) at offset off of a file holding content: all that is there
read_syscall(content, off) ==
    IF off >= Len(content) THEN <<>> ELSE SubSeq(content, off + 1, Len(content))

BufOwnerShared(t) == 1

\* whose buffer a call fills: `contents` is a local of the call
BufOwner(t) == t

InitConc ==
    /\ pc = "running"
    /\ host = CookieHost
    /\ args \in {a \in CookieArgs : a.cookie = None /\ a.network = "Bitcoin"}
    /\ exit_code = None
    /\ stderr = <<"Config">>
    /\ config \in {o.config : o \in from_args(args, host)}
    /\ files = [p \in CookiePaths |-> NoFile("NotFound")]
    /\ getter = Some(cookie_getter(unwrap(config)))
    /\ last = "cookie_getter"
    /\ gets = <<>>
    /\ captured = None
    /\ inodes = [i \in 1..MaxInodes |-> IF i = 1 THEN BobPw ELSE <<>>]
    /\ dentry = 1
    /\ thr = [t \in Threads |-> IdleThread]
    /\ wr = [pc |-> "idle", fd |-> 0, pending |-> <<>>]

\* thread t enters get(): File::open(path)
Open(t) ==
    /\ thr[t].pc = "idle"
    /\ unwrap(getter).variant = "CookieFile"
    /\ thr' = [[thr EXCEPT ![t] =
                   [pc |-> "reading", fd |-> dentry, off |-> 0, buf |-> @.buf,
                    snap |-> inodes[dentry], torn |-> FALSE, ok |-> FALSE]]
                EXCEPT ![BufOwner(t)].buf = <<>>]
    /\ UNCHANGED <<inodes, dentry, wr>>
    /\ UNCHANGED startupVars
    /\ UNCHANGED cookieVars

\* one read of read_to_end: more bytes, or end of file and get() returns
Read(t) ==
    /\ thr[t].pc = "reading"
    /\ LET chunk == read_syscall(inodes[thr[t].fd], thr[t].off)
           owner == BufOwner(t)
       IN IF chunk = <<>>
          THEN /\ thr' = [thr EXCEPT ![t].pc = "done", ![t].ok = TRUE,
                                     ![t].fd = 0, ![t].off = 0,
                                     ![t].buf = thr[owner].buf]
               /\ inodes' = Reclaim(inodes, dentry, thr')
          ELSE /\ thr' = [[thr EXCEPT ![t].off = @ + Len(chunk)]
                             EXCEPT ![owner].buf = @ \o chunk]
               /\ UNCHANGED inodes
    /\ UNCHANGED <<dentry, wr>>
    /\ UNCHANGED startupVars
    /\ UNCHANGED cookieVars

\* the caller takes the result; the thread may call get() again
Return(t) ==
    /\ thr[t].pc = "done"
    /\ thr' = [thr EXCEPT ![t] = IdleThread]
    /\ UNCHANGED <<inodes, dentry, wr>>
    /\ UNCHANGED startupVars
    /\ UNCHANGED cookieVars

\* (history) the calls that have inode ino open when it is changed in place
\* are marked torn; what such a call saw at its open no longer matters
WrittenInPlace(ino) ==
    [t \in Threads |->
        IF thr[t].pc = "reading" /\ thr[t].fd = ino
        THEN [thr[t] EXCEPT !.torn = TRUE, !.snap = <<>>]
        ELSE thr[t]]

\* a writer opens the cookie file with O_TRUNC to rewrite it in place
TruncateInPlace ==
    /\ wr.pc = "idle"
    /\ \E c \in ConcContents :
        /\ c # inodes[dentry]
        /\ wr' = [pc |-> "truncated", fd |-> dentry, pending |-> c]
    /\ inodes' = [inodes EXCEPT ![dentry] = <<>>]
    /\ thr' = WrittenInPlace(dentry)
    /\ UNCHANGED dentry
    /\ UNCHANGED startupVars
    /\ UNCHANGED cookieVars

\* the writer writes the new content into the file it truncated
WriteInPlace ==
    /\ wr.pc = "truncated"
    /\ inodes' = [inodes EXCEPT ![wr.fd] = wr.pending]
    /\ thr' = WrittenInPlace(wr.fd)
    /\ wr' = [pc |-> "idle", fd |-> 0, pending |-> <<>>]
    /\ UNCHANGED dentry
    /\ UNCHANGED startupVars
    /\ UNCHANGED cookieVars

\* a writer replaces the cookie file by renaming a complete new file over it
ReplaceByRename ==
    /\ wr.pc = "idle"
    /\ dentry < MaxInodes
    /\ \E c \in ConcContents :
        /\ c # inodes[dentry]
        /\ inodes' = Reclaim([inodes EXCEPT ![dentry + 1] = c], dentry + 1, thr)
    /\ dentry' = dentry + 1
    /\ UNCHANGED <<thr, wr>>
    /\ UNCHANGED startupVars
    /\ UNCHANGED cookieVars

NextConc ==
    \/ \E t \in Threads : Open(t)
    \/ \E t \in Threads : Read(t)
    \/ \E t \in Threads : Return(t)
    \/ TruncateInPlace
    \/ WriteInPlace
    \/ ReplaceByRename

SpecConc == InitConc /\ [][NextConc]_vars

(***************************************************************************)
(* Properties of the startup path (checked under Spec)                     *)
(***************************************************************************)
Returned == pc = "running" /\ config # None
Cfg == unwrap(config)

\* the daemon directory the merge hands to from_args
RawDaemonDir ==
    IF args.daemon_dir # None THEN unwrap(args.daemon_dir)
    ELSE unwrap(host.home) \o <<".bitcoin">>

C7_PortsResolved ==
    Returned =>
        /\ Cfg.daemon_rpc_port =
             IF args.daemon_rpc_port # None THEN args.daemon_rpc_port[1]
             ELSE IF args.network = "Bitcoin" THEN 8332
             ELSE IF args.network = "Testnet" THEN 18332 ELSE 18443
        /\ Cfg.indexer_rpc_port =
             IF args.indexer_rpc_port # None THEN args.indexer_rpc_port[1]
             ELSE IF args.network = "Bitcoin" THEN 8432
             ELSE IF args.network = "Testnet" THEN 18432 ELSE 18543

C7_Witness ==
    /\ Returned /\ args.network = "Regtest"
    /\ args.daemon_rpc_port = None /\ args.indexer_rpc_port = Some(18332)
    /\ Cfg.daemon_rpc_port = 18443 /\ Cfg.indexer_rpc_port = 18332

\* C8: the resolved daemon_dir is the raw directory followed by "testnet3"
\* (TestNet) or "regtest" (RegTest), once, and the raw directory itself on
\* MainNet.
C8_DaemonDirResolved ==
    Returned =>
        /\ args.network = "Testnet" =>
             Cfg.daemon_dir = RawDaemonDir \o <<"testnet3">>
        /\ args.network = "Regtest" =>
             Cfg.daemon_dir = RawDaemonDir \o <<"regtest">>
        /\ args.network = "Bitcoin" => Cfg.daemon_dir = RawDaemonDir

C8_Witness ==
    /\ Returned /\ args.network = "Testnet" /\ args.daemon_dir = None
    /\ Cfg.daemon_dir = <<"home", "u", ".bitcoin", "testnet3">>

\* C9: bulk_index_threads of a returned Config is never zero: 0 resolves to
\* the host's number of CPUs (at least 1), a non-zero value is kept.
C9_ThreadsNeverZero ==
    Returned =>
        /\ Cfg.bulk_index_threads # 0
        /\ args.bulk_index_threads # 0 =>
             Cfg.bulk_index_threads = args.bulk_index_threads
        /\ args.bulk_index_threads = 0 =>
             Cfg.bulk_index_threads = host.ncpus /\ Cfg.bulk_index_threads >= 1

C9_Witness ==
    /\ Returned /\ args.bulk_index_threads = 0
    /\ host.ncpus = MaxCpus /\ Cfg.bulk_index_threads = MaxCpus

\* m * 1,048,576 truncated toward zero, in exact integer arithmetic
TruncatedBytes(m) ==
    LET e == m.exp + 20
        mag == IF e >= 0 THEN m.mant * Pow2(e) ELSE m.mant \div Pow2(-e)
    IN IF m.neg THEN 0 - mag ELSE mag

\* C10 (as stated): for every m, blocktxids_cache_size is m * 1,048,576
\* truncated toward zero.
C10_CacheSizeTruncated ==
    Returned =>
        Cfg.blocktxids_cache_size = TruncatedBytes(args.blocktxids_cache_size_mb)

\* C10 (amended): for every m whose product with 1,048,576, truncated toward
\* zero, is not negative, blocktxids_cache_size is that product; 1.0 gives
\* 1,048,576 and 2.5 gives 2,621,440.
C10_CacheSizeTruncatedNonNegative ==
    LET m == args.blocktxids_cache_size_mb
    IN Returned =>
        /\ TruncatedBytes(m) >= 0 => Cfg.blocktxids_cache_size = TruncatedBytes(m)
        /\ m = F32(FALSE, 1, 0) => Cfg.blocktxids_cache_size = 1048576
        /\ m = F32(FALSE, 5, -1) => Cfg.blocktxids_cache_size = 2621440

C10_Witness ==
    /\ Returned
    /\ args.blocktxids_cache_size_mb = F32(FALSE, 11744051, -24)
    /\ Cfg.blocktxids_cache_size = 734003

(***************************************************************************)
(* Properties of the cookie getters (checked under SpecCookie)             *)
(***************************************************************************)
HeldGetter == unwrap(getter)
JustGot(variant) ==
    last = "get" /\ getter # None /\ HeldGetter.variant = variant

\* the file a file-backed getter is to read
HeldCookieFile == files[HeldGetter.daemon_dir \o <<".cookie">>]

\* C1: right after a get() of a file-backed getter returns, what it returned
\* is what <daemon_dir>/.cookie holds then: it succeeded exactly if the file
\* is readable, with the file's bytes, whatever an earlier get() returned.
C1_ReadsAfresh ==
    JustGot("CookieFile") =>
        /\ gets[1].ok <=> HeldCookieFile.st = "file"
        /\ gets[1].ok => gets[1].bytes = HeldCookieFile.bytes

C1_Witness ==
    /\ JustGot("CookieFile")
    /\ Len(gets) = 2
    /\ gets[2].ok /\ gets[2].bytes = BobPw
    /\ gets[1].ok /\ gets[1].bytes = BobPw2

\* C2: every get() of a getter built from a Config with cookie = Some(s)
\* succeeds with the bytes of s as it was when the getter was built, without
\* touching the file system, whatever the files and the Config hold now.
C2_StaticReturnsCaptured ==
    (last = "get" /\ captured # None) =>
        LET s == unwrap(captured)
        IN \A i \in 1..Len(gets) :
            /\ gets[i].ok
            /\ gets[i].bytes = [k \in 1..Len(s) |-> Utf8(s[k])]
            /\ s = <<"a", ":", "s">> => gets[i].bytes = <<97, 58, 115>>
            /\ gets[i].reads = 0

C2_Witness ==
    /\ last = "get" /\ captured = Some(AliceSecret)
    /\ Len(gets) = 2
    /\ gets[1].bytes = <<97, 58, 115>>
    /\ unwrap(config).cookie # captured
    /\ \E p \in CookiePaths : files[p] = File(BobPw)

\* C3: right after cookie_getter() returns, the getter is a StaticCookie
\* exactly if Config.cookie is set now, and otherwise a CookieFile on the
\* Config's daemon_dir as it is now.
C3_GetterSelection ==
    last = "cookie_getter" =>
        /\ getter # None
        /\ HeldGetter.variant = "StaticCookie" <=> Cfg.cookie # None
        /\ Cfg.cookie = None =>
            /\ HeldGetter.variant = "CookieFile"
            /\ HeldGetter.daemon_dir = Cfg.daemon_dir

C3_Witness ==
    /\ last = "cookie_getter"
    /\ args.cookie # None /\ Cfg.cookie = None
    /\ HeldGetter.variant = "CookieFile"
    /\ HeldGetter.daemon_dir = Cfg.daemon_dir
    /\ args.network = "Bitcoin" /\ Cfg.daemon_dir = <<"data", "testnet3">>

\* C4: a get() of a file-backed getter whose file cannot be read returns a
\* Connection error naming <daemon_dir>/.cookie and carrying the I/O cause;
\* no bytes, one read attempt, and the process keeps running.
C4_ReadFailure ==
    (JustGot("CookieFile") /\ HeldCookieFile.st # "file") =>
        /\ ~gets[1].ok
        /\ gets[1].kind = "Connection"
        /\ gets[1].msg =
             IF HeldGetter.daemon_dir = <<"data">>
             THEN "failed to read cookie from \"/data/.cookie\""
             ELSE "failed to read cookie from \"/data/testnet3/.cookie\""
        /\ gets[1].cause = HeldCookieFile.st
        /\ gets[1].bytes = <<>>
        /\ gets[1].reads = 1
        /\ pc = "running" /\ exit_code = None

C4_Witness ==
    /\ JustGot("CookieFile")
    /\ HeldCookieFile.st = "PermissionDenied"
    /\ gets[1].cause = "PermissionDenied"
    /\ gets[1].msg = "failed to read cookie from \"/data/testnet3/.cookie\""

(***************************************************************************)
(* Properties of concurrent get() calls (checked under SpecConc)           *)
(***************************************************************************)
\* every content the cookie file holds at any moment: the contents written,
\* and nothing, between a truncation and the write that follows it
EverHeld == ConcContents \cup {<<>>}

\* C5 (as stated): whatever rewrites the file while get() calls run, every
\* get() that returns did so with the complete content the file had at some
\* single moment, never a mixture of two contents.
C5_ConsistentSnapshot ==
    \A t \in Threads :
        (thr[t].pc = "done" /\ thr[t].ok) => thr[t].buf \in EverHeld

\* C5 (amended): the calls share no state, and a get() returns the complete
\* content the file had when the call opened it, unless the file it has open
\* was truncated or written in place during the call; a file replaced by a
\* rename does not disturb it.
C5_SnapshotUnlessWrittenInPlace ==
    \A t \in Threads :
        (thr[t].pc = "done" /\ thr[t].ok /\ ~thr[t].torn) =>
            /\ thr[t].buf = thr[t].snap
            /\ thr[t].buf \in EverHeld

C5_Witness ==
    /\ thr[1].pc = "done" /\ thr[1].ok /\ ~thr[1].torn
    /\ thr[1].buf = BobPw
    /\ thr[2].pc = "done" /\ thr[2].ok /\ ~thr[2].torn
    /\ thr[2].buf = SaPass
    /\ inodes[dentry] = SaPass /\ dentry = 2

====
